---------------------------- MODULE Spec2Model ----------------------------
(* Model of the Data-Ops Toolbox host (src/app/main.py): plug-in discovery *)
(* (discover_plugins), the registry built by MainWindow.__init__, and the   *)
(* selection / run / outcome handlers (_choose, _run, _done) together with  *)
(* the worker thread (Runner.run).                                          *)
(*                                                                          *)
(* Text is modelled as a sequence of fragments (strings), so that string    *)
(* formatting is concatenation, the empty string is << >> and "line        *)
(* contains v" is a statement about sub-sequences.                          *)
EXTENDS Naturals, Sequences, FiniteSets, TLC

\* ------------------------------------------------------------------ bounds
\* Number of files the scripts directory holds at most.
MaxFiles == 2
\* Number of Run clicks that reach the plug-in lookup (each may start a worker).
MaxRuns == 2

\* ------------------------------------------------------------- text helpers
\* Python values that cross the plug-in boundary: None, str and Path objects.
PyNone == [type |-> "NoneType", s |-> << >>]

PyStr(text) == [type |-> "str", s |-> text]

\* pathlib.Path(text)
Path(text) == [type |-> "Path", s |-> text]

\* str(v), as the f-strings of the host apply it
Str(v) == IF v.type = "NoneType" THEN <<"None">> ELSE v.s

\* An exception object: its class and its message (str(e), possibly empty).
Exc(type, msg) == [type |-> type, msg |-> msg]

NoExc == Exc("", << >>)

RECURSIVE Concat(_)
\* f-string rendering: the fragments of the parts, joined.
Concat(parts) ==
    IF parts = << >> THEN << >> ELSE Head(parts) \o Concat(Tail(parts))

\* s[from..] starts with the sequence t
StartsAt(s, t, from) ==
    /\ from + Len(t) - 1 <= Len(s)
    /\ \A i \in 1..Len(t) : s[from + i - 1] = t[i]

\* str.startswith
StartsWith(s, t) == StartsAt(s, t, 1)

\* str.endswith
EndsWith(s, t) == Len(t) <= Len(s) /\ StartsAt(s, t, Len(s) - Len(t) + 1)

\* -------------------------------------------------- the scripts directory
\* The files a scripts directory may hold.  Each record describes one file:
\*   chars     the file name, character by character
\*   readable  the file can be opened and decoded as UTF-8
\*   syntax    the whole file is syntactically valid Python
\*   doc       what the module doc-string is: "mapping" (YAML mapping),
\*             "scalar" (YAML that is not a mapping), "badyaml" (not YAML),
\*             "none" (no doc-string)
\*   hasName / name                `name` of the header
\*   nameType  the Python type of the value of `name`: "str", "NoneType"
\*             (name: null), "int" (name: 42), "list" (name: [x]); for the
\*             last three `name` holds the text of the value
\*   hasDesc / description         `description` of the header
\*   hasReq / required_files       `required_files`, in declaration order
\*   file_filters                  `file_filters`: key and pattern (the label
\*                                 field holds the pattern), empty if absent
\*   top       what the code below the header does when executed
\*   main      what the entry point does: "returns", "raises" (an Exception),
\*             "exits" (a BaseException that is no Exception), "hangs",
\*             "absent" (the module defines no main)
\*   params    the parameter names of main, in the order of the signature
\*             (none has a default)
\*   prints    the lines main prints on stdout before it returns
\*   result    the value main returns; exc: what the code raises
Req(k, l) == [key |-> k, label |-> l]

Plugin(chars, name, req, top, main, result, exc) ==
    [chars |-> chars, readable |-> TRUE, syntax |-> TRUE, doc |-> "mapping",
     hasName |-> TRUE, name |-> name, nameType |-> "str", hasDesc |-> TRUE,
     description |-> <<"about ">> \o name, hasReq |-> TRUE,
     required_files |-> req, file_filters |-> << >>, top |-> top,
     main |-> main,
     params |-> [i \in 1..Len(req) |-> req[i].key], result |-> result,
     prints |-> << >>, exc |-> exc]

\* The three plug-ins the repository ships in src/app/scripts.
BundledIds ==
    {"Honda_Automation.py", "Time_Labor_Audit.py", "payroll_autoaudit.py"}

FileIds ==
    {"a.py", "b.py", "c.py", "d.py", "e.py", "h.py", "g.py", "q.py", "o.py",
     "s.py", "y.py", "n.py", "t.py", "z.py", "u.py", "k.py", "l.py", "m.py",
     "i.py", "_p.py", "r.txt"} \cup BundledIds

FileRecord(f) ==
    CASE f = "a.py" ->
           Plugin(<<"a", ".", "p", "y">>, <<"A">>,
                  <<Req("BASE", <<"Billing file">>),
                    Req("DEMO", <<"Demographics file">>)>>,
                  "ok", "returns", Path(<<"out.xlsx">>), NoExc)
      [] f = "b.py" ->
           Plugin(<<"b", ".", "p", "y">>, <<"B">>,
                  <<Req("P1", <<"P1">>)>>,
                  "ok", "raises", PyNone, Exc("ValueError", << >>))
      [] f = "c.py" ->
           Plugin(<<"c", ".", "p", "y">>, <<"C">>,
                  <<Req("P1", <<"P1">>)>>,
                  "ok", "exits", PyNone, Exc("SystemExit", <<"1">>))
      [] f = "d.py" ->
           Plugin(<<"d", ".", "p", "y">>, <<"D">>,
                  <<Req("DEMO", <<"Demographics file">>)>>,
                  "raises", "returns", PyNone,
                  Exc("ImportError", <<"No module named pandas">>))
      [] f = "e.py" ->
           Plugin(<<"e", ".", "p", "y">>, <<"E">>,
                  <<Req("P1", <<"P1">>)>>,
                  "ok", "absent", PyNone, NoExc)
      [] f = "h.py" ->
           Plugin(<<"h", ".", "p", "y">>, <<"H">>,
                  << >>, "ok", "hangs", PyNone, NoExc)
      [] f = "q.py" ->
           [Plugin(<<"q", ".", "p", "y">>, <<"Q">>,
                   << >>, "ok", "returns", PyNone, NoExc)
              EXCEPT !.hasReq = FALSE]
      [] f = "o.py" ->
           [Plugin(<<"o", ".", "p", "y">>, <<"O">>,
                   << >>, "ok", "returns", Path(<<"o.xlsx">>), NoExc)
              EXCEPT !.hasDesc = FALSE, !.description = << >>]
      [] f = "s.py" ->
           [Plugin(<<"s", ".", "p", "y">>, <<"S">>,
                   << >>, "raises", "absent", PyNone,
                   Exc("SyntaxError", <<"invalid syntax">>))
              EXCEPT !.syntax = FALSE]
      [] f = "y.py" ->
           [Plugin(<<"y", ".", "p", "y">>, << >>,
                   << >>, "ok", "returns", PyNone, NoExc)
              EXCEPT !.doc = "badyaml", !.hasName = FALSE]
      [] f = "n.py" ->
           [Plugin(<<"n", ".", "p", "y">>, << >>,
                   << >>, "ok", "returns", PyNone, NoExc)
              EXCEPT !.hasName = FALSE]
      [] f = "t.py" ->
           [Plugin(<<"t", ".", "p", "y">>, << >>,
                   << >>, "ok", "returns", PyNone, NoExc)
              EXCEPT !.doc = "scalar", !.hasName = FALSE]
      [] f = "z.py" ->
           [Plugin(<<"z", ".", "p", "y">>, << >>,
                   << >>, "ok", "returns", PyNone, NoExc)
              EXCEPT !.doc = "none", !.hasName = FALSE]
      [] f = "u.py" ->
           [Plugin(<<"u", ".", "p", "y">>, <<"U">>,
                   << >>, "ok", "returns", PyNone, NoExc)
              EXCEPT !.readable = FALSE]
      [] f = "g.py" ->
           Plugin(<<"g", ".", "p", "y">>, <<"H">>,
                  <<Req("P1", <<"P1">>)>>,
                  "raises", "returns", PyNone,
                  Exc("ImportError", <<"No module named numpy">>))
      [] f = "k.py" ->
           [Plugin(<<"k", ".", "p", "y">>, <<"None">>,
                   << >>, "ok", "returns", PyNone, NoExc)
              EXCEPT !.nameType = "NoneType"]
      [] f = "l.py" ->
           [Plugin(<<"l", ".", "p", "y">>, <<"['x']">>,
                   << >>, "ok", "returns", PyNone, NoExc)
              EXCEPT !.nameType = "list"]
      [] f = "m.py" ->
           Plugin(<<"m", ".", "p", "y">>, << >>,
                  << >>, "ok", "returns", PyNone, NoExc)
      [] f = "i.py" ->
           [Plugin(<<"i", ".", "p", "y">>, <<"42">>,
                   << >>, "ok", "returns", PyNone, NoExc)
              EXCEPT !.nameType = "int"]
      [] f = "Honda_Automation.py" ->
           [Plugin(<<"H", "o", "n", "d", "a", "_", "A", "u", "t", "o", "m", "a", "t", "i", "o", "n", ".", "p", "y">>,
                   <<"Honda DEI export">>,
                   <<Req("BASE_FILE", <<"base_table.csv">>),
                     Req("DEMO_FILE", <<"demographics.csv">>)>>,
                   "ok", "returns", Path(<<"honda_export.xlsx">>), NoExc)
              EXCEPT !.params = <<"BASE_FILE", "DEMO_FILE">>,
                     !.prints = << <<"Export complete → ", "honda_export.xlsx">> >>,
                     !.description =
                        <<"Builds the Honda diversity & fees export for AHM.">>]
      [] f = "Time_Labor_Audit.py" ->
           [Plugin(<<"T", "i", "m", "e", "_", "L", "a", "b", "o", "r", "_", "A", "u", "d", "i", "t", ".", "p", "y">>,
                   <<"Time & Labor Audit">>,
                   <<Req("P1", <<"P1">>), Req("P2", <<"P2">>)>>,
                   "ok", "returns",
                   Path(<<"time_labor_audit_", "timestamp", ".xlsx">>), NoExc)
              EXCEPT !.params = <<"P1", "P2">>,
                     !.file_filters =
                        <<Req("P1", <<"Excel Files (*.xlsx *.xls);;All Files (*)">>),
                          Req("P2", <<"Excel Files (*.xlsx *.xls);;All Files (*)">>)>>,
                     !.description = <<"Accepts two Excel files P1 and P2.">>]
      [] f = "payroll_autoaudit.py" ->
           [Plugin(<<"p", "a", "y", "r", "o", "l", "l", "_", "a", "u", "t", "o", "a", "u", "d", "i", "t", ".", "p", "y">>,
                   <<"Payroll auto-audit">>,
                   <<Req("payroll_xlsx", <<"Payroll export (XLSX)">>)>>,
                   "ok", "returns",
                   Path(<<"payroll_auto_audit_results.xlsx">>), NoExc)
              EXCEPT !.params = <<"payroll_xlsx">>,
                     !.prints = << <<"len(audit)", " rows need audit → ",
                                     "payroll_auto_audit_results.xlsx">> >>,
                     !.description =
                        <<"Runs automated checks on the payroll workbook ",
                          "and produces a flagged-rows sheet.">>]
      [] f = "_p.py" ->
           Plugin(<<"_", "p", ".", "p", "y">>, <<"P">>,
                  << >>, "ok", "returns", PyNone, NoExc)
      [] f = "r.txt" ->
           Plugin(<<"r", ".", "t", "x", "t">>, <<"R">>,
                  << >>, "ok", "returns", PyNone, NoExc)

\* The catalogue: the record of every file.
Catalogue == [f \in FileIds |-> FileRecord(f)]

File(f) == Catalogue[f]

\* Directories taken as they are: the one the repository ships, two files
\* that declare the same name, a header with a null name next to a
\* well-formed one and next to an empty name (two items with the same text,
\* alone and next to a plug-in that runs), a plug-in next to two files
\* that are no candidates, and a plug-in next to headers without
\* required_files and without description.
FixedDirectories ==
    {BundledIds, {"h.py", "g.py"}, {"a.py", "k.py"}, {"k.py", "m.py"},
     {"a.py", "k.py", "m.py"},
     {"a.py", "_p.py", "r.txt"}, {"a.py", "q.py", "o.py"}}

\* The files that occur in fixed directories only.
FixedOnly ==
    BundledIds \cup {"g.py", "k.py", "m.py", "_p.py", "r.txt", "q.py", "o.py"}

\* The directories the host may be started on: the fixed ones, and every
\* directory of at most MaxFiles of the other files.
Directories ==
    {d \in SUBSET (FileIds \ FixedOnly) : Cardinality(d) <= MaxFiles}
        \cup FixedDirectories

\* The paths the user may pick in a file dialog (a cancelled dialog gives "").
Paths == {<<"x.csv">>}

\* ------------------------------------------------------- ordered mappings
\* A Python dict: a sequence of [key, value] entries in insertion order.
HasKey(d, k) == \E i \in 1..Len(d) : d[i].key = k

\* d[k]
Lookup(d, k) == d[CHOOSE i \in 1..Len(d) : d[i].key = k].value

\* d[k] = v: an existing key keeps its position, a new key goes last
DictSet(d, k, v) ==
    IF HasKey(d, k)
    THEN [i \in 1..Len(d) |-> IF d[i].key = k THEN [key |-> k, value |-> v]
                                               ELSE d[i]]
    ELSE Append(d, [key |-> k, value |-> v])

\* list(d): the keys in iteration order
Keys(d) == [i \in 1..Len(d) |-> d[i].key]

\* list.remove(x): the first occurrence goes
Remove(l, x) ==
    LET i == CHOOSE j \in 1..Len(l) : l[j] = x /\ \A k \in 1..(j - 1) : l[k] # x
    IN  [j \in 1..(Len(l) - 1) |-> IF j < i THEN l[j] ELSE l[j + 1]]

InList(l, x) == \E i \in 1..Len(l) : l[i] = x

\* ------------------------------------------------------------- discovery
\* SCRIPTS_DIR.glob("*.py"), without __init__.py and without _private files
IsCandidate(f) ==
    /\ EndsWith(File(f).chars, <<".", "p", "y">>)
    /\ ~(\/ File(f).chars = <<"_", "_", "i", "n", "i", "t", "_", "_", ".", "p", "y">>
         \/ StartsWith(File(f).chars, <<"_">>))

\* Variant of ast_parse that imports the module, as an eager host would: the
\* top-level code runs, and a failure of it counts as a failure to parse.
ImportModuleInstead(f) ==
    IF ~File(f).readable
    THEN [ok |-> FALSE, executed |-> FALSE,
          exc |-> Exc("UnicodeDecodeError", <<"invalid start byte">>)]
    ELSE IF ~File(f).syntax
    THEN [ok |-> FALSE, executed |-> FALSE, exc |-> File(f).exc]
    ELSE [ok |-> File(f).top = "ok", executed |-> TRUE, exc |-> File(f).exc]

\* file.open(...) and ast.parse(fh.read()): the text is read and compiled to
\* a syntax tree; no statement of it is executed.
ast_parse(f) ==
    IF ~File(f).readable
    THEN [ok |-> FALSE, executed |-> FALSE,
          exc |-> Exc("UnicodeDecodeError", <<"invalid start byte">>)]
    ELSE IF ~File(f).syntax
    THEN [ok |-> FALSE, executed |-> FALSE, exc |-> File(f).exc]
    ELSE [ok |-> TRUE, executed |-> FALSE, exc |-> NoExc]

\* Variant of Extract that yields every file whose doc-string loads as YAML.
ExtractAnyHeader(f) ==
    IF ~ast_parse(f).ok
    THEN [outcome |-> "warn", exc |-> ast_parse(f).exc]
    ELSE IF File(f).doc = "badyaml"
    THEN [outcome |-> "warn",
          exc |-> Exc("ScannerError", <<"mapping values are not allowed here">>)]
    ELSE [outcome |-> "yield", exc |-> NoExc]

\* The body of the try block of discover_plugins for one file: the file is
\* read and parsed (never executed), its doc-string is loaded as YAML, and
\* the file is yielded when the result is a mapping with a `name`.
\*   "yield"  the pair (meta, file) is yielded
\*   "skip"   nothing is yielded and nothing is printed
\*   "warn"   an exception was caught: the warning of line 52 is printed
Extract(f) ==
    IF ~ast_parse(f).ok
    THEN [outcome |-> "warn", exc |-> ast_parse(f).exc]
    ELSE IF File(f).doc = "badyaml"
    THEN [outcome |-> "warn",
          exc |-> Exc("ScannerError", <<"mapping values are not allowed here">>)]
    ELSE IF File(f).doc = "mapping" /\ File(f).hasName
    THEN [outcome |-> "yield", exc |-> NoExc]
    ELSE [outcome |-> "skip", exc |-> NoExc]

\* `yield meta, file` is reached for file f
Yields(f) == IsCandidate(f) /\ Extract(f).outcome = "yield"

\* m["name"] as a dict key.  A str key is its text; a key of another type is
\* the name of the type followed by the text of the value, which is the text
\* of no str key of the catalogue (None and "None" are different keys).
Key(f) ==
    IF File(f).nameType = "str" THEN File(f).name
    ELSE <<File(f).nameType>> \o File(f).name

\* type(k) of a registry key
KeyType(k) ==
    IF k # << >> /\ k[1] \in {"NoneType", "int"} THEN k[1] ELSE "str"

\* hash(m["name"]) succeeds: a YAML sequence or mapping is a list or a dict
Hashable(f) == File(f).nameType # "list"

\* One step of the comprehension {m["name"]: (m, path) for ...}: a later pair
\* with the same key replaces the value and keeps the position of the key.
RegistryInsert(reg, f) == DictSet(reg, Key(f), f)

RECURSIVE BuildRegistry(_, _)
\* The comprehension of __init__ run to its end over the files in the order
\* `order` glob returns them in, starting from the mapping reg: the registry,
\* or the TypeError of a key that cannot be hashed.
BuildRegistry(order, reg) ==
    IF order = << >> THEN [raised |-> FALSE, plugins |-> reg]
    ELSE IF ~Yields(Head(order)) THEN BuildRegistry(Tail(order), reg)
    ELSE IF ~Hashable(Head(order)) THEN [raised |-> TRUE, plugins |-> << >>]
    ELSE BuildRegistry(Tail(order), RegistryInsert(reg, Head(order)))

\* QListWidgetItem(name) accepts a str (the text of the item) and None (the
\* overload taking a parent list, which leaves the text empty); any other
\* type matches no overload and raises TypeError.
ItemAccepted(k) == KeyType(k) \in {"str", "NoneType"}

\* item.text() of the item made for key k
ItemText(k) == IF KeyType(k) = "str" THEN k ELSE << >>

\* Variant of Warning that leaves the file name out.
WarningWithoutName(f, exc) == <<"[WARN] Skipping: ">> \o exc.msg

\* print(f"[WARN] Skipping {file.name}: {exc}")
Warning(f, exc) ==
    Concat(<< <<"[WARN] Skipping ">>, File(f).chars, <<": ">>, exc.msg >>)

\* ------------------------------------------------------------------ state
WorkerIds == 1..MaxRuns

DictIds == 1..(MaxRuns + 1)

VARIABLES
    directory,        \* the files of SCRIPTS_DIR
    todo,             \* files glob has not returned yet
    stdout,           \* the lines printed, by discovery and by the mains
    yielded,          \* the files discover_plugins has yielded
    plugins,          \* self.plugins: name -> file (its meta and path)
    listbox,          \* the names listed, in order
    ui,               \* where the UI control flow is: "init", "idle",
                      \* "prompt" (inside _run, a file dialog is open),
                      \* "crashed" (__init__ raised), "killed" (process gone)
    _current_name,    \* << >> for None, <<name>> for a str
    currentRow,       \* the row of the current item of the list, 0 for none
    _selected_files,  \* the dict object self._selected_files refers to
    heap,             \* the dict objects, by identity
    run_btn,          \* the run control is enabled
    output,           \* the lines of the output browser
    _workers,         \* the list self._workers
    threads,          \* the Runner objects, by identity
    events,           \* emitted `finished` signals queued for the UI loop
    entry,            \* local of _run: the file of the (meta, path) looked up
    idx,              \* local of _run: position in required_files
    runs,             \* number of Run clicks that reached the lookup
    topExec,          \* per file: how often its top-level code was executed
    mainCalls,        \* per file: how often its main was invoked
    handled,          \* per worker: the outcomes _done was invoked with
    prompted,         \* keys for which the latest _run opened a file dialog
    filters,          \* the filter argument of each of those dialogs
    answered,         \* what those dialogs returned, in order
    escaped           \* exceptions that left a handler uncaught

vars ==
    <<directory, todo, stdout, yielded, plugins, listbox, ui, _current_name,
      currentRow,
      _selected_files, heap, run_btn, output, _workers, threads, events,
      entry, idx, runs, topExec, mainCalls, handled, prompted, filters,
      answered,
      escaped>>

discoveryVars == <<directory, todo, stdout, yielded, plugins, listbox>>

historyVars ==
    <<runs, topExec, mainCalls, handled, prompted, filters, answered,
      escaped>>

\* A Runner: its thread's state, self.func (the file whose main it is),
\* self.kwargs (a dict object), the name selected when it was created and the
\* mapping main was called with.
NoThread ==
    [state |-> "none", func |-> "", kwargs |-> 0, name |-> << >>,
     args |-> << >>, printed |-> 0]

\* MainWindow.__init__ up to the first file of discover_plugins.
Init ==
    /\ directory \in Directories
    /\ todo = directory
    /\ stdout = << >>
    /\ yielded = {}
    /\ plugins = << >>
    /\ listbox = << >>
    /\ ui = "init"
    /\ _current_name = << >>
    /\ currentRow = 0
    /\ _selected_files = 1
    /\ heap = [i \in DictIds |-> << >>]
    /\ run_btn = TRUE
    /\ output = << >>
    /\ _workers = << >>
    /\ threads = [w \in WorkerIds |-> NoThread]
    /\ events = << >>
    /\ entry = ""
    /\ idx = 0
    /\ runs = 0
    /\ topExec = [f \in FileIds |-> 0]
    /\ mainCalls = [f \in FileIds |-> 0]
    /\ handled = [w \in WorkerIds |-> << >>]
    /\ prompted = << >>
    /\ filters = << >>
    /\ answered = << >>
    /\ escaped = {}

uiVars ==
    <<ui, _current_name, currentRow, _selected_files, heap, run_btn, output, _workers,
      threads, events, entry, idx>>

\* An exception raised by statement `stmt` leaves `handler` uncaught.  In a
\* slot the binding reports it and the event loop goes on; in __init__ it
\* ends the program.
Escape(handler, stmt, e) ==
    escaped \cup {[handler |-> handler, stmt |-> stmt, exc |-> e.type]}

\* One iteration of `for file in SCRIPTS_DIR.glob("*.py")`, with the step of
\* the dict comprehension of __init__ that consumes what it yields.  glob
\* returns the files in an order the file system decides.  A key that cannot
\* be hashed raises TypeError in the comprehension: __init__ ends there and
\* self.plugins is never bound.
discover_plugins(f) ==
    /\ ui = "init"
    /\ f \in todo
    /\ todo' = todo \ {f}
    /\ IF ~IsCandidate(f)
       THEN UNCHANGED <<stdout, yielded, plugins, topExec, ui, escaped>>
       ELSE /\ topExec' = [topExec EXCEPT
                              ![f] = @ + (IF ast_parse(f).executed THEN 1 ELSE 0)]
            /\ CASE Extract(f).outcome = "warn" ->
                      /\ stdout' = Append(stdout, Warning(f, Extract(f).exc))
                      /\ UNCHANGED <<yielded, plugins, ui, escaped>>
                 [] Extract(f).outcome = "skip" ->
                      UNCHANGED <<stdout, yielded, plugins, ui, escaped>>
                 [] Extract(f).outcome = "yield" ->
                      /\ yielded' = yielded \cup {f}
                      /\ IF Hashable(f)
                         THEN /\ plugins' = RegistryInsert(plugins, f)
                              /\ UNCHANGED <<ui, escaped>>
                         ELSE /\ plugins' = << >>
                              /\ ui' = "crashed"
                              /\ escaped' = Escape("__init__", "m['name']",
                                                   Exc("TypeError",
                                                       <<"unhashable type">>))
                      /\ UNCHANGED stdout
    /\ UNCHANGED <<directory, listbox, _current_name, currentRow, _selected_files, heap,
                   run_btn, output, _workers, threads, events, entry, idx,
                   runs, mainCalls, handled, prompted, filters, answered>>

\* The rest of MainWindow.__init__: the list is filled from the registry, an
\* item per key in the order of the keys.  A key QListWidgetItem does not
\* accept raises TypeError: __init__ ends with the items added so far.
MainWindow_init ==
    /\ ui = "init"
    /\ todo = {}
    /\ LET keys == Keys(plugins)
           bad == {i \in 1..Len(keys) : ~ItemAccepted(keys[i])}
           n == IF bad = {} THEN Len(keys)
                ELSE (CHOOSE i \in bad : \A j \in bad : i <= j) - 1
       IN  /\ listbox' = [i \in 1..n |-> ItemText(keys[i])]
           /\ ui' = IF bad = {} THEN "idle" ELSE "crashed"
           /\ escaped' = IF bad = {} THEN escaped
                         ELSE Escape("__init__", "QListWidgetItem(name)",
                                     Exc("TypeError", <<"wrong argument types">>))
    /\ UNCHANGED <<directory, todo, stdout, yielded, plugins, _current_name, currentRow,
                   _selected_files, heap, run_btn, output, _workers, threads,
                   events, entry, idx, runs, topExec, mainCalls, handled,
                   prompted, filters, answered>>

\* ------------------------------------------------------------ the handlers
\* `if not self._current_name`: None and "" are both falsy
Truthy(opt) == opt # << >> /\ opt[1] # << >>

\* The dict objects the Runner objects still refer to.
HeldByWorkers(thr) ==
    {thr[w].kwargs : w \in {v \in WorkerIds :
        thr[v].state \in {"started", "running", "emitted", "died"}}}

\* Garbage collection: a dict nothing refers to is gone.
Collect(h, sel, thr) ==
    [i \in DictIds |-> IF i \in {sel} \cup HeldByWorkers(thr) THEN h[i]
                                                                ELSE << >>]

\* `self._selected_files = {}`: the attribute is bound to a new, empty dict
\* object (one that no Runner holds); the result is that object and the heap.
NewDict ==
    LET i == CHOOSE k \in DictIds :
                 /\ k \notin HeldByWorkers(threads)
                 /\ \A j \in 1..(k - 1) : j \in HeldByWorkers(threads)
    IN  [id |-> i, heap |-> [heap EXCEPT ![i] = << >>]]

\* Variant of format_exc that keeps only str(exc).
FormatExcMessageOnly(e) == e.msg

\* traceback.format_exc() inside the except block of Runner.run

format_exc(e) ==
    <<"Traceback (most recent call last):", "  File main.py, line 64, in run",
      e.type>> \o (IF e.msg = << >> THEN << >> ELSE <<": ">> \o e.msg)

\* Variant of Params for an entry point that takes one positional path.
ParamsSinglePath(f) == {"path"}

\* The parameter names of `def main(...)` of file f
Params(f) == {File(f).params[i] : i \in 1..Len(File(f).params)}

\* main(**kwargs) binds: every parameter of main gets an argument and every
\* key names a parameter.
Binds(f, kwargs) == {kwargs[i].key : i \in 1..Len(kwargs)} = Params(f)

\* Variant of CallEnds in which a call that does not end is ended by a timeout
\* raised in the worker.
CallEndsWithTimeout(f, kwargs) ==
    IF ~Binds(f, kwargs) \/ File(f).main = "hangs" THEN "raises"
    ELSE File(f).main

\* How the call self.func(**self.kwargs) ends: a call that does not bind
\* raises TypeError before main is entered.
CallEnds(f, kwargs) == IF Binds(f, kwargs) THEN File(f).main ELSE "raises"

\* The keys of kwargs that name no parameter of main, in the order of kwargs.
Unexpected(f, kwargs) == SelectSeq(Keys(kwargs), LAMBDA k : k \notin Params(f))

\* The parameters of main that kwargs gives no argument, in the order of the
\* signature.
Missing(f, kwargs) == SelectSeq(File(f).params, LAMBDA q : ~HasKey(kwargs, q))

RECURSIVE CommaList(_)
\* 'A', 'B', and 'C': the names of three or more missing arguments.
CommaList(names) ==
    IF Len(names) = 1 THEN <<"and '", names[1], "'">>
    ELSE <<"'", names[1], "', ">> \o CommaList(Tail(names))

\* The names of the missing arguments as the TypeError lists them.
NameList(names) ==
    IF names = << >> THEN << >>
    ELSE IF Len(names) = 1 THEN <<"'", names[1], "'">>
    ELSE IF Len(names) = 2 THEN <<"'", names[1], "' and '", names[2], "'">>
    ELSE CommaList(names)

\* The TypeError of a call main(**kwargs) that does not bind: the first key
\* that names no parameter is reported; if every key names one, the
\* parameters left without an argument are.
BindError(f, kwargs) ==
    IF Unexpected(f, kwargs) # << >>
    THEN Exc("TypeError", <<"main() got an unexpected keyword argument '",
                            Unexpected(f, kwargs)[1], "'">>)
    ELSE Exc("TypeError",
             <<"main() missing ", ToString(Len(Missing(f, kwargs))),
               IF Len(Missing(f, kwargs)) = 1
               THEN " required positional argument: "
               ELSE " required positional arguments: ">>
             \o NameList(Missing(f, kwargs)))

\* The exception the call raises.
CallExc(f, kwargs) ==
    IF Binds(f, kwargs) THEN File(f).exc ELSE BindError(f, kwargs)

\* Variant of EmitsFrom for a worker that emits before it calls main.
EmitsBeforeCall == "started"

\* Where Runner.run emits: after self.func(**self.kwargs) has returned
\* (line 66) or raised (line 69), that is out of the state "running".
EmitsFrom == "running"

\* The lines main prints on stdout in a call that returns: the print is the
\* statement before the return (Honda_Automation.py line 298,
\* payroll_autoaudit.py line 434); a call that raises has not come to it.
MainPrints(f, kwargs) ==
    IF CallEnds(f, kwargs) = "returns" THEN File(f).prints ELSE << >>

\* Variant of Runner_outcome that reports every call as a failure.
OutcomeAlwaysError(f, kwargs) ==
    [tag |-> "error", payload |-> PyStr(format_exc(CallExc(f, kwargs)))]

\* What Runner.run emits for the way the call ended (lines 64-69).
Runner_outcome(f, kwargs) ==
    IF CallEnds(f, kwargs) = "returns"
    THEN [tag |-> "ok", payload |-> File(f).result]
    ELSE [tag |-> "error", payload |-> PyStr(format_exc(CallExc(f, kwargs)))]

\* meta, path = self.plugins[self._current_name]

SelectedEntry == Lookup(plugins, _current_name[1])

\* Variant of RunSelection that leaves the attribute bound to the old dict.
RunSelectionKept == [id |-> _selected_files, heap |-> heap]

\* self._selected_files = {}  (line 135)
RunSelection == NewDict

\* Variant of PromptItem that iterates from the last declared key.
PromptItemReversed(f, i) ==
    File(f).required_files[Len(File(f).required_files) + 1 - i]

\* The i-th (key, label) of `meta["required_files"].items()`
PromptItem(f, i) == File(f).required_files[i]

\* Variant of RunSetEnabled that leaves the run control enabled.
RunLeavesButtonEnabled == TRUE

\* self.run_btn.setEnabled(False)  (line 144)

RunSetEnabled == FALSE

\* Variant of DoneSetEnabled that leaves the run control as it is.
DoneLeavesDisabled == run_btn

\* self.run_btn.setEnabled(True)  (line 161)
DoneSetEnabled == TRUE

\* Variant of DoneWorkers that keeps the worker in the list.
DoneKeepsWorker(ws, w) == ws

\* if worker in self._workers: self._workers.remove(worker)

DoneWorkers(ws, w) == IF InList(ws, w) THEN Remove(ws, w) ELSE ws

\* The lines the handlers append to the output browser.
DescriptionLine(f) == Concat(<< <<"<b>">>, File(f).description, <<"</b><br/>">> >>)

LabelLine(label) == <<"* ">> \o label

CancelLine(label) == Concat(<< <<"<i>Cancelled - missing ">>, label, <<"</i>">> >>)

SelectedLine(label, fname) == Concat(<< label, <<": ">>, fname >>)

RunningLine == <<"\nRunning ...">>

DoneLine(payload) ==
    Concat(<< <<"<br/><b>Done -> ">>, Str(payload), <<"</b>">> >>)

CrashLine(payload) ==
    Concat(<< <<"<br/><span style='color:red'><b>Script crashed</b></span>">>,
              <<"<pre>">>, Str(payload), <<"</pre>">> >>)

RECURSIVE LabelLines(_)
LabelLines(req) ==
    IF req = << >> THEN << >>
    ELSE <<LabelLine(Head(req).label)>> \o LabelLines(Tail(req))

\* Variant of Cancelled that takes every answer for a path.
NeverCancelled(fname) == FALSE

\* `if not fname`

Cancelled(fname) == fname = << >>

\* MainWindow._choose(item), the slot of listbox.currentItemChanged (line 97):
\* the item of row `row` becomes the current item of the list.  Qt emits the
\* signal when another item becomes current, whatever its text; the slot has
\* no condition of its own but `if not item`, and the item is never null here.
_choose(row) ==
    /\ ui = "idle"
    /\ row \in 1..Len(listbox)
    /\ row # currentRow
    /\ currentRow' = row
    /\ _current_name' = <<listbox[row]>>
    /\ LET name == listbox[row]
           f == Lookup(plugins, name)
           head == <<DescriptionLine(f), <<"<u>Files required:</u>">> >>
       IN  IF ~HasKey(plugins, name)
           THEN /\ escaped' = Escape("_choose", "self.plugins[name]",
                                     Exc("KeyError", name))
                /\ UNCHANGED <<output, _selected_files, heap>>
           ELSE IF ~File(f).hasDesc
           THEN /\ output' = << >>
                /\ escaped' = Escape("_choose", "meta['description']",
                                     Exc("KeyError", <<"description">>))
                /\ UNCHANGED <<_selected_files, heap>>
           ELSE IF ~File(f).hasReq
           THEN /\ output' = head
                /\ escaped' = Escape("_choose", "meta['required_files']",
                                     Exc("KeyError", <<"required_files">>))
                /\ UNCHANGED <<_selected_files, heap>>
           ELSE /\ output' = head \o LabelLines(File(f).required_files)
                                  \o << <<"<i>Click Run to choose them</i><br/>">> >>
                /\ _selected_files' = NewDict.id
                /\ heap' = Collect(NewDict.heap, _selected_files', threads)
                /\ UNCHANGED escaped
    /\ UNCHANGED <<discoveryVars, ui, run_btn, _workers, threads, events,
                   entry, idx, runs, topExec, mainCalls, handled, prompted,
                   filters,
                   answered>>

\* Variant of AfterWorkerStart for a handler that waits for the worker
\* (worker.wait()) before it returns.
WaitsForWorker == "waiting"

\* Where the UI control flow is after worker.start() (line 150): start()
\* returns at once and _run ends, so the event loop is idle again.
AfterWorkerStart == "idle"

\* Variant of exec_module for a loader that runs the code of a module once
\* and reuses the module afterwards.
ImportCached(count) == IF count = 0 THEN 1 ELSE count

\* loader.exec_module(mod) on a new module object (lines 128-131): the
\* top-level code is executed once more, whatever was loaded before.
exec_module(count) == count + 1

\* Variant of SelectionAtLoad that resets the selection before the module is
\* loaded.
SelectionResetBeforeLoad == NewDict

\* self._selected_files while the module is loaded (lines 128-132): still the
\* mapping of before the click, line 135 has not been reached.
SelectionAtLoad == [id |-> _selected_files, heap |-> heap]

\* The filter argument of QFileDialog.getOpenFileName(self, f"Select {label}")
\* for the i-th key (line 137): none is passed, the default is "".
DialogFilter(f, i) == << >>

\* Lines 144-150 of _run: the worker `w` is created on (fn, self._selected_files),
\* kept in self._workers and started.
StartWorker(w, f, sel, out) ==
    /\ run_btn' = RunSetEnabled
    /\ output' = Append(out, RunningLine)
    /\ threads' = [threads EXCEPT ![w] =
                      [state |-> "started", func |-> f, kwargs |-> sel,
                       name |-> _current_name[1], args |-> << >>,
                       printed |-> 0]]
    /\ _workers' = Append(_workers, w)

\* MainWindow._run(), from the click to the first file dialog (or to the end
\* when no dialog is opened).
_run ==
    /\ ui = "idle"
    /\ run_btn
    /\ \/ /\ ~Truthy(_current_name)
          /\ UNCHANGED vars
       \/ /\ Truthy(_current_name)
          /\ runs < MaxRuns
          /\ runs' = runs + 1
          /\ LET f == SelectedEntry
                 opens == /\ File(f).top = "ok" /\ File(f).main # "absent"
                          /\ File(f).hasReq
                          /\ File(f).required_files # << >>
             IN  /\ topExec' = [topExec EXCEPT ![f] = exec_module(@)]
                 /\ entry' = f
                 /\ prompted' = IF opens THEN <<PromptItem(f, 1).key>> ELSE << >>
                 /\ filters' = IF opens THEN <<DialogFilter(f, 1)>> ELSE << >>
                 /\ answered' = << >>
                 /\ IF File(f).top = "raises"
                    THEN /\ escaped' = Escape("_run", "loader.exec_module(mod)",
                                              File(f).exc)
                         /\ _selected_files' = SelectionAtLoad.id
                         /\ heap' = SelectionAtLoad.heap
                         /\ UNCHANGED <<ui, run_btn, output, _workers, threads,
                                        idx>>
                    ELSE IF File(f).main = "absent"
                    THEN /\ escaped' = Escape("_run", "mod.main",
                                              Exc("AttributeError", <<"main">>))
                         /\ _selected_files' = SelectionAtLoad.id
                         /\ heap' = SelectionAtLoad.heap
                         /\ UNCHANGED <<ui, run_btn, output, _workers, threads,
                                        idx>>
                    ELSE IF ~File(f).hasReq
                    THEN /\ escaped' = Escape("_run", "meta['required_files']",
                                              Exc("KeyError", <<"required_files">>))
                         /\ _selected_files' = RunSelection.id
                         /\ heap' = Collect(RunSelection.heap, _selected_files',
                                            threads)
                         /\ UNCHANGED <<ui, run_btn, output, _workers, threads,
                                        idx>>
                    ELSE IF File(f).required_files = << >>
                    THEN /\ _selected_files' = RunSelection.id
                         /\ StartWorker(runs + 1, f, _selected_files', output)
                         /\ heap' = Collect(RunSelection.heap, _selected_files',
                                            threads')
                         /\ ui' = AfterWorkerStart
                         /\ UNCHANGED <<idx, escaped>>
                    ELSE /\ _selected_files' = RunSelection.id
                         /\ heap' = Collect(RunSelection.heap, _selected_files',
                                            threads)
                         /\ ui' = "prompt"
                         /\ idx' = 1
                         /\ UNCHANGED <<run_btn, output, _workers, threads, escaped>>
          /\ UNCHANGED <<discoveryVars, _current_name, currentRow, events, mainCalls, handled>>

\* MainWindow._run(), from the return of QFileDialog.getOpenFileName with
\* `fname` ("" when cancelled) to the next dialog or to the end of the handler.
_run_dialog(fname) ==
    /\ ui = "prompt"
    /\ answered' = Append(answered, fname)
    /\ LET item == PromptItem(entry, idx)
       IN  IF Cancelled(fname)
           THEN /\ output' = Append(output, CancelLine(item.label))
                /\ ui' = "idle"
                /\ idx' = 0
                /\ UNCHANGED <<heap, run_btn, _workers, threads, prompted,
                               filters>>
           ELSE LET h == [heap EXCEPT ![_selected_files] =
                              DictSet(@, item.key, Path(fname))]
                    out == Append(output, SelectedLine(item.label, fname))
                IN  /\ heap' = h
                    /\ IF idx = Len(File(entry).required_files)
                       THEN /\ StartWorker(runs, entry, _selected_files, out)
                            /\ ui' = AfterWorkerStart
                            /\ idx' = 0
                            /\ UNCHANGED <<prompted, filters>>
                       ELSE /\ output' = out
                            /\ idx' = idx + 1
                            /\ prompted' = Append(prompted, PromptItem(entry, idx + 1).key)
                            /\ filters' = Append(filters, DialogFilter(entry, idx + 1))
                            /\ UNCHANGED <<ui, run_btn, _workers, threads>>
    /\ UNCHANGED <<discoveryVars, _current_name, currentRow, _selected_files, events, entry,
                   runs, topExec, mainCalls, handled, escaped>>

Alive == ui \in {"idle", "prompt"}

\* Runner.run on the worker thread: `self.func(**self.kwargs)` is entered.
Runner_call(w) ==
    /\ Alive
    /\ threads[w].state = "started"
    /\ threads' = [threads EXCEPT ![w].state = "running",
                                  ![w].args = heap[threads[w].kwargs]]
    /\ mainCalls' = [mainCalls EXCEPT ![threads[w].func] =
                         @ + (IF Binds(threads[w].func, heap[threads[w].kwargs])
                              THEN 1 ELSE 0)]
    /\ UNCHANGED <<discoveryVars, ui, _current_name, currentRow, _selected_files, heap,
                   run_btn, output, _workers, events, entry, idx, runs, topExec,
                   handled, prompted, filters, answered, escaped>>

\* main of the plug-in, inside the call of Runner.run (line 64): the next
\* line main prints is written to stdout.  The thread is still in the call.
main_print(w) ==
    /\ Alive
    /\ threads[w].state = "running"
    /\ threads[w].printed < Len(MainPrints(threads[w].func, threads[w].args))
    /\ stdout' = Append(stdout, MainPrints(threads[w].func, threads[w].args)
                                    [threads[w].printed + 1])
    /\ threads' = [threads EXCEPT ![w].printed = @ + 1]
    /\ UNCHANGED <<directory, todo, yielded, plugins, listbox, ui,
                   _current_name, currentRow, _selected_files, heap, run_btn, output,
                   _workers, events, entry, idx, historyVars>>

\* Runner.run: main returned (having printed what it prints) or raised an
\* Exception, and the outcome is emitted (line 66 or 69); the signal is queued
\* for the thread of the UI.
Runner_emit(w) ==
    /\ Alive
    /\ threads[w].state = EmitsFrom
    /\ threads[w].printed = Len(MainPrints(threads[w].func, threads[w].args))
    /\ CallEnds(threads[w].func, threads[w].args) \in {"returns", "raises"}
    /\ events' = Append(events, [worker |-> w,
                                 result |-> Runner_outcome(threads[w].func,
                                                           threads[w].args)])
    /\ threads' = [threads EXCEPT ![w].state = "emitted"]
    /\ UNCHANGED <<discoveryVars, ui, _current_name, currentRow, _selected_files, heap,
                   run_btn, output, _workers, entry, idx, historyVars>>

\* Runner.run: main raised something `except Exception` does not catch.
\* Nothing is emitted.  The binding reports the error: for SystemExit that
\* ends the process, for the others the thread just ends.
Runner_die(w) ==
    /\ Alive
    /\ threads[w].state = "running"
    /\ CallEnds(threads[w].func, threads[w].args) = "exits"
    /\ threads' = [threads EXCEPT ![w].state = "died"]
    /\ ui' \in {ui, "killed"}
    /\ UNCHANGED <<discoveryVars, _current_name, currentRow, _selected_files, heap,
                   run_btn, output, _workers, events, entry, idx, historyVars>>

\* MainWindow._done(result, worker): the UI event loop (also the one a file
\* dialog runs) delivers the oldest queued signal.
_done ==
    /\ Alive
    /\ events # << >>
    /\ LET w == Head(events).worker
           status == Head(events).result.tag
           payload == Head(events).result.payload
       IN  /\ output' = Append(output, IF status = "ok" THEN DoneLine(payload)
                                                         ELSE CrashLine(payload))
           /\ run_btn' = DoneSetEnabled
           /\ _workers' = DoneWorkers(_workers, w)
           /\ threads' = [threads EXCEPT ![w] =
                             [@ EXCEPT !.state = "deleted", !.kwargs = 0]]
           /\ heap' = Collect(heap, _selected_files, threads')
           /\ handled' = [handled EXCEPT ![w] = Append(@, Head(events).result)]
    /\ events' = Tail(events)
    /\ UNCHANGED <<discoveryVars, ui, _current_name, currentRow, _selected_files, entry, idx,
                   runs, topExec, mainCalls, prompted, filters, answered,
                   escaped>>

Next ==
    \/ \E f \in FileIds : discover_plugins(f)
    \/ MainWindow_init
    \/ \E row \in 1..Len(listbox) : _choose(row)
    \/ _run
    \/ \E fname \in Paths \cup {<< >>} : _run_dialog(fname)
    \/ \E w \in WorkerIds : Runner_call(w)
    \/ \E w \in WorkerIds : main_print(w)
    \/ \E w \in WorkerIds : Runner_emit(w)
    \/ \E w \in WorkerIds : Runner_die(w)
    \/ _done

Spec == Init /\ [][Next]_vars

\* The worker thread and the UI event loop are scheduled fairly; the user is
\* not obliged to do anything.
FairSpec ==
    /\ Spec
    /\ \A w \in WorkerIds : WF_vars(Runner_call(w))
    /\ \A w \in WorkerIds : WF_vars(main_print(w))
    /\ \A w \in WorkerIds : WF_vars(Runner_emit(w))
    /\ \A w \in WorkerIds : WF_vars(Runner_die(w))
    /\ WF_vars(_done)

\* ------------------------------------------------------------- properties
Last(q) == q[Len(q)]

\* the text s contains the text t
Contains(s, t) == \E from \in 1..(Len(s) + 1) : StartsAt(s, t, from)

KeySet(d) == {d[i].key : i \in 1..Len(d)}

InFlight(w) == threads[w].state \in {"started", "running", "emitted", "died"}

\* The thread of worker w has ended: main returned or raised.
Ended(w) == threads[w].state \in {"emitted", "died", "deleted"}

Pending(w) == Cardinality({i \in 1..Len(events) : events[i].worker = w})

\* The keys the header of file f declares under required_files.
DeclaredKeys(f) ==
    {File(f).required_files[i].key : i \in 1..Len(File(f).required_files)}

\* C1: when _done handles the outcome of a worker whose main raised an
\* Exception, the outcome is ("error", diagnostic) with a non-empty
\* diagnostic, the run control is enabled afterwards and the worker is no
\* longer in _workers; and when, after such a failure, _done handles the
\* outcome of a later worker of another plug-in whose main returned, that
\* outcome is ("ok", result).
C1_FailureIsolated ==
    [][\A w \in WorkerIds :
          handled'[w] # handled[w] =>
             LET f == threads[w].func
                 r == Last(handled'[w])
             IN  /\ File(f).main = "raises" =>
                       /\ r.tag = "error"
                       /\ Str(r.payload) # << >>
                       /\ run_btn'
                       /\ ~InList(_workers', w)
                 /\ ( /\ File(f).main = "returns"
                      /\ \E v \in 1..(w - 1) :
                            /\ handled[v] # << >>
                            /\ File(threads[v].func).main = "raises"
                            /\ threads[v].func # f )
                     => r = [tag |-> "ok", payload |-> File(f).result]]_vars

\* A failed run of one plug-in was followed by a successful run of another.
C1_Witness ==
    /\ handled[1] # << >> /\ handled[1][1].tag = "error"
    /\ handled[2] # << >> /\ handled[2][1].tag = "ok"
    /\ threads[1].func # threads[2].func
    /\ run_btn
    /\ _workers = << >>

\* C2: an exception raised while the selected plug-in is loaded in _run, or a
\* missing `main`, never leaves the Run handler uncaught (it is reported to
\* _done as an error outcome instead).
C2_LoadFailureReported ==
    \A e \in escaped :
        ~(e.handler = "_run"
          /\ e.stmt \in {"loader.exec_module(mod)", "mod.main"})

\* C3: once the entry point of a started worker has stopped, for whatever
\* reason, the run control is eventually enabled again.
C3_EventuallyReEnabled ==
    \A w \in WorkerIds :
        (threads[w].state \in {"emitted", "died"}) ~> run_btn

\* C4: _workers holds at most one worker, at most one main is executing, and
\* the run control is disabled from the start of a worker until its outcome
\* has been handled.
C4_AtMostOneRun ==
    /\ Len(_workers) <= 1
    /\ Cardinality({w \in WorkerIds : threads[w].state = "running"}) <= 1
    /\ Cardinality({w \in WorkerIds : InFlight(w)}) <= 1
    /\ \A w \in WorkerIds : InFlight(w) => ~run_btn

\* A main is executing while the bound on runs would still allow a click.
C4_Witness ==
    /\ \E w \in WorkerIds : threads[w].state = "running"
    /\ Len(_workers) = 1
    /\ runs < MaxRuns
    /\ ui = "idle"
    /\ Truthy(_current_name)

\* C5: every worker whose thread has ended has produced exactly one outcome
\* (queued or already handled), and _done is never invoked twice for it.
C5_ExactlyOneOutcome ==
    \A w \in WorkerIds :
        /\ Len(handled[w]) + Pending(w) <= 1
        /\ Ended(w) => Len(handled[w]) + Pending(w) = 1

\* C6: when a file dialog of a Run returns the empty selection, the handler
\* ends there: no worker is created or kept, the run control stays enabled,
\* no further dialog is opened, the line appended to the output names the
\* label of that requirement, and main is never invoked for that Run.
C6_CancelAborts ==
    /\ [](answered # << >> /\ Last(answered) = << >> =>
             /\ threads[runs].state = "none"
             /\ ui = "idle"
             /\ Len(prompted) = Len(answered)
             /\ run_btn)
    /\ [][(ui = "prompt" /\ answered' = Append(answered, << >>)) =>
             /\ ui' = "idle"
             /\ run_btn /\ run_btn'
             /\ _workers' = _workers
             /\ threads' = threads
             /\ mainCalls' = mainCalls
             /\ prompted' = prompted
             /\ Len(output') = Len(output) + 1
             /\ Contains(Last(output'),
                         File(entry).required_files[Len(prompted)].label)]_vars

\* The second of two dialogs was cancelled.
C6_Witness ==
    /\ Len(answered) = 2
    /\ answered[1] # << >>
    /\ answered[2] = << >>
    /\ ui = "idle"
    /\ Contains(Last(output), <<"Demographics file">>)

\* C7: the dialogs of a Run are opened in the declaration order of
\* required_files, one per key, and the dialog for a key is opened only after
\* every earlier dialog has returned a non-empty path.
C7_PromptOrder ==
    /\ entry = "" => prompted = << >>
    /\ entry # "" =>
          /\ Len(prompted) <= Len(File(entry).required_files)
          /\ \A i \in 1..Len(prompted) :
                prompted[i] = File(entry).required_files[i].key
    /\ Len(answered) <= Len(prompted)
    /\ ui = "prompt" => Len(prompted) = Len(answered) + 1
    /\ \A i \in 1..(Len(prompted) - 1) : answered[i] # << >>

\* The dialog for DEMO is open after the one for BASE returned a path.
C7_Witness ==
    /\ ui = "prompt"
    /\ prompted = <<"BASE", "DEMO">>
    /\ Len(answered) = 1

ValidArgs(f, d) ==
    /\ KeySet(d) = DeclaredKeys(f)
    /\ Len(d) = Cardinality(DeclaredKeys(f))
    /\ \A i \in 1..Len(d) : d[i].value.type = "Path" /\ d[i].value.s # << >>

\* C8: the mapping a started worker holds, and the mapping main is called
\* with, has exactly the keys of required_files of the plug-in that was
\* selected when the worker was created, each with a non-empty path.
C8_ExactKeys ==
    \A w \in WorkerIds :
        /\ threads[w].state # "none" =>
              /\ HasKey(plugins, threads[w].name)
              /\ Lookup(plugins, threads[w].name) = threads[w].func
        /\ threads[w].state \in {"started", "running", "emitted", "died"} =>
              ValidArgs(threads[w].func, heap[threads[w].kwargs])
        /\ threads[w].state \in {"running", "emitted", "died", "deleted"} =>
              ValidArgs(threads[w].func, threads[w].args)

\* A main is executing that was called with two paths.
C8_Witness ==
    \E w \in WorkerIds :
        /\ threads[w].state = "running"
        /\ Len(threads[w].args) = 2

\* C9: the top-level code of a file is executed only by a Run click made
\* while that file's plug-in is the selected one, and its main only by a
\* worker created by such a click; discovery and selection execute nothing.
C9_ExecutedOnlyOnRun ==
    /\ [](ui = "init" =>
             \A f \in FileIds : topExec[f] = 0 /\ mainCalls[f] = 0)
    /\ [][\A f \in FileIds :
             /\ topExec'[f] # topExec[f] =>
                   /\ ui = "idle"
                   /\ run_btn
                   /\ runs' = runs + 1
                   /\ topExec'[f] = topExec[f] + 1
                   /\ Truthy(_current_name)
                   /\ _current_name' = _current_name
                   /\ Lookup(plugins, _current_name[1]) = f
             /\ mainCalls'[f] # mainCalls[f] =>
                   \E w \in WorkerIds :
                      /\ threads[w].state = "started"
                      /\ threads'[w].state = "running"
                      /\ threads[w].func = f
                      /\ Lookup(plugins, threads[w].name) = f
                      /\ topExec[f] > 0]_vars

\* Two plug-ins are registered; one has been run, the other one is selected
\* and none of its code has been executed.
C9_Witness ==
    /\ Len(plugins) = 2
    /\ Truthy(_current_name)
    /\ topExec[Lookup(plugins, _current_name[1])] = 0
    /\ \E f \in FileIds : topExec[f] > 0 /\ mainCalls[f] > 0

\* A header that is a mapping with a `name`, in a readable candidate file.
ValidHeader(f) ==
    /\ IsCandidate(f)
    /\ File(f).readable
    /\ File(f).doc = "mapping"
    /\ File(f).hasName

\* C10: once the registry is built, every file of the directory with a valid
\* header is in it, whatever the code below the header is like.
C10_ValidHeaderRegistered ==
    ui # "init" =>
        \A f \in directory :
            ValidHeader(f) =>
                HasKey(plugins, File(f).name) /\ Lookup(plugins, File(f).name) = f

\* A candidate file the host cannot get a header from: the file cannot be
\* read or parsed, or its doc-string is not YAML.
Unparsable(f) ==
    /\ IsCandidate(f)
    /\ (~File(f).readable \/ ~File(f).syntax \/ File(f).doc = "badyaml")

\* A candidate file that parses and whose header is a mapping with a `name`
\* that is a non-empty string.
WellFormed(f) ==
    /\ ValidHeader(f)
    /\ File(f).syntax
    /\ File(f).nameType = "str"
    /\ File(f).name # << >>

\* The files of the catalogue of each kind.
CandidateFiles == {f \in FileIds : IsCandidate(f)}

UnparsableFiles == {f \in FileIds : Unparsable(f)}

WellFormedFiles == {f \in FileIds : WellFormed(f)}

\* The warnings printed.
Warnings ==
    {i \in 1..Len(stdout) : StartsWith(stdout[i], <<"[WARN] Skipping ">>)}

\* The warnings printed that contain the name of file f.
WarningsFor(f) ==
    {i \in 1..Len(stdout) :
        /\ StartsWith(stdout[i], <<"[WARN] Skipping ">>)
        /\ Contains(stdout[i], File(f).chars)}

\* The files the registry holds.
Registered == {plugins[i].value : i \in 1..Len(plugins)}

\* C11: in a directory whose candidate files each have either a well-formed
\* header or an unparsable one, the files discovery has yielded so far are
\* exactly the well-formed ones it has come to, every unparsable file it has
\* come to has one printed warning containing its file name, no exception
\* leaves discovery, and discovery reaches every file of the directory.
C11_UnparsableSkippedWithWarning ==
    (directory \cap CandidateFiles \subseteq WellFormedFiles \cup UnparsableFiles) =>
        /\ ui # "crashed"
        /\ \A e \in escaped : e.handler # "__init__"
        /\ yielded = (directory \ todo) \cap WellFormedFiles
        /\ \A f \in (directory \ todo) \cap UnparsableFiles :
              /\ Cardinality(WarningsFor(f)) = 1
              /\ f \notin Registered
        /\ Cardinality(Warnings) =
              Cardinality((directory \ todo) \cap UnparsableFiles)
        /\ ui # "init" =>
              /\ todo = {}
              /\ Registered \subseteq yielded
              /\ Len(listbox) = Len(plugins)

\* The host is up on a directory with one well-formed and one unparsable
\* file: the first is listed and the second was warned about.
C11_Witness ==
    /\ ui = "idle"
    /\ \E f \in directory, g \in directory :
          /\ WellFormed(f) /\ Unparsable(g)
          /\ listbox = <<File(f).name>>
          /\ Len(stdout) = 1
          /\ Contains(stdout[1], File(g).chars)

\* A candidate file that parses but has no header to register: the
\* doc-string is absent, is YAML that is not a mapping, or is a mapping
\* without `name`.
Headless(f) ==
    /\ IsCandidate(f)
    /\ File(f).readable /\ File(f).syntax
    /\ \/ File(f).doc \in {"scalar", "none"}
       \/ File(f).doc = "mapping" /\ ~File(f).hasName

HeadlessFiles == {f \in FileIds : Headless(f)}

\* C12: a candidate file whose header is a mapping without `name`, or is not
\* a mapping, or is absent, is never yielded and is never in the registry.
C12_NamelessNeverRegistered ==
    \A f \in directory \cap HeadlessFiles :
        f \notin yielded /\ f \notin Registered

\* The host is up on a directory that holds a file without a usable header
\* next to a registered plug-in.
C12_Witness ==
    /\ ui = "idle"
    /\ \E f \in directory : Headless(f)
    /\ Len(plugins) = 1

\* C13: every candidate file discovery has skipped has a printed warning that
\* contains its file name and a cause after it.
C13_EverySkipWarned ==
    \A f \in directory \ todo :
        (IsCandidate(f) /\ f \notin yielded) =>
            \E i \in WarningsFor(f) :
                Len(stdout[i]) > Len(Warning(f, NoExc))

\* C14: building the registry and the list at startup never raises, and once
\* the window is built every well-formed plug-in of the directory is listed,
\* whatever `name` the other headers declare.
C14_StartupNeverRaises ==
    /\ ui # "crashed"
    /\ \A e \in escaped : e.handler # "__init__"
    /\ ui # "init" =>
          \A f \in directory : WellFormed(f) => InList(listbox, File(f).name)

\* C15: every key of the registry is a non-empty string and occurs once; a
\* header whose `name` is empty or null has no entry.
C15_KeysNonEmptyStrings ==
    /\ \A i \in 1..Len(plugins) :
          /\ KeyType(plugins[i].key) = "str"
          /\ plugins[i].key # << >>
          /\ \A j \in 1..Len(plugins) : plugins[j].key = plugins[i].key => j = i
    /\ \A f \in directory :
          (File(f).nameType = "NoneType" \/ File(f).name = << >>) =>
              f \notin Registered

\* The orders glob may return the files of directory d in.
Orders(d) ==
    {o \in [1..Cardinality(d) -> d] : \A f \in d : \E i \in DOMAIN o : o[i] = f}

\* C16: the registry the host has built, keys in listing order and the file
\* each key stands for, is the one every enumeration order of the directory
\* gives, and no enumeration order makes the construction raise.
C16_EnumerationOrderIrrelevant ==
    ui \notin {"init", "crashed"} =>
        \A o \in Orders(directory) :
            BuildRegistry(o, << >>) = [raised |-> FALSE, plugins |-> plugins]

\* C17: when _done handles the outcome of a worker whose main returned v, the
\* outcome is ("ok", v) with v as main returned it and the line appended to
\* the output contains v; the appended line is the success rendering exactly
\* for an "ok" outcome and the crash rendering exactly for an "error" outcome.
C17_SuccessRendered ==
    [][\A w \in WorkerIds :
          handled'[w] # handled[w] =>
             LET f == threads[w].func
                 r == Last(handled'[w])
                 line == Last(output')
             IN  /\ Len(output') = Len(output) + 1
                 /\ CallEnds(f, threads[w].args) = "returns" =>
                       /\ r = [tag |-> "ok", payload |-> File(f).result]
                       /\ Contains(line, Str(File(f).result))
                 /\ r.tag \in {"ok", "error"}
                 /\ r.tag = "ok" <=> StartsWith(line, <<"<br/><b>Done -> ">>)
                 /\ r.tag = "error" <=>
                       /\ Contains(line, <<"<pre>">> \o Str(r.payload))
                       /\ ~StartsWith(line, <<"<br/><b>Done -> ">>)]_vars

\* The outcome of a main that returned a path has been handled and the last
\* line of the output shows that path.
C17_Witness ==
    \E w \in WorkerIds :
        /\ handled[w] = <<[tag |-> "ok", payload |-> Path(<<"out.xlsx">>)]>>
        /\ output # << >>
        /\ Contains(Last(output), <<"out.xlsx">>)

\* Each bundled file is a well-formed plug-in whose main takes the keys its
\* header declares.
BundledSignaturesMatch ==
    \A f \in BundledIds : WellFormed(f) /\ Params(f) = DeclaredKeys(f)

\* C18: for each bundled plug-in the parameter names of main are the keys its
\* header declares under required_files, and every call the host makes of a
\* bundled main binds: the keys passed are the parameter names, and no
\* outcome of a bundled plug-in is a TypeError of the call.
C18_BundledSignaturesBind ==
    /\ BundledSignaturesMatch
    /\ \A w \in WorkerIds :
          threads[w].func \in BundledIds =>
              /\ threads[w].state \in {"running", "emitted", "died", "deleted"} =>
                    /\ Binds(threads[w].func, threads[w].args)
                    /\ KeySet(threads[w].args) = DeclaredKeys(threads[w].func)
              /\ \A i \in 1..Len(handled[w]) :
                    ~Contains(Str(handled[w][i].payload), <<"TypeError">>)

\* Two different bundled plug-ins have been run and both calls were handled.
C18_Witness ==
    /\ directory = BundledIds
    /\ \E v \in WorkerIds, w \in WorkerIds :
          /\ threads[v].func \in BundledIds /\ threads[w].func \in BundledIds
          /\ threads[v].func # threads[w].func
          /\ handled[v] # << >> /\ handled[w] # << >>
          /\ Len(threads[v].args) + Len(threads[w].args) >= 3

\* C19: selecting and running a registered plug-in never raises in _choose,
\* nor in _run on the lookup of required_files: a header without
\* `description` or without `required_files` is shown and run like one that
\* declares them empty.
C19_RegisteredIsUsable ==
    \A e \in escaped :
        ~(/\ e.handler \in {"_choose", "_run"}
          /\ e.stmt \in {"meta['description']", "meta['required_files']"})

\* A step of one of the handlers the UI thread runs.
UIHandlerStep ==
    \/ \E row \in 1..Len(listbox) : _choose(row)
    \/ _run
    \/ \E fname \in Paths \cup {<< >>} : _run_dialog(fname)
    \/ _done

\* A step of Runner.run on the thread of worker w.
WorkerStep(w) ==
    Runner_call(w) \/ main_print(w) \/ Runner_emit(w) \/ Runner_die(w)

\* C20: _workers, the enabled flag of the run control and the output change
\* only in steps of _choose, _run and _done; a step of a worker thread
\* changes none of them (it calls main and queues the outcome); and no
\* handler runs inside another: while _run waits in a file dialog no outcome
\* is queued or on its way, so _done cannot run there.
C20_HostStateOnUIThread ==
    /\ [][(<<_workers, run_btn, output>>' # <<_workers, run_btn, output>>)
             => UIHandlerStep]_vars
    /\ [][\A w \in WorkerIds :
             WorkerStep(w) =>
                /\ UNCHANGED <<_workers, run_btn, output, _current_name, currentRow,
                               _selected_files, heap, plugins, listbox>>
                /\ Len(events') <= Len(events) + 1]_vars
    /\ [](ui = "prompt" =>
             /\ events = << >>
             /\ \A w \in WorkerIds : ~InFlight(w))

\* An outcome is queued for the UI thread while the host state is as _run
\* left it: the worker is kept and the run control is disabled.
C20_Witness ==
    /\ events # << >>
    /\ _workers = <<Head(events).worker>>
    /\ ~run_btn
    /\ Last(output) = RunningLine

\* C21: _workers holds exactly the workers that were started and whose
\* outcome _done has not handled, each once; the step of _done that handles
\* the outcome of a worker finds it in _workers and removes it, and it is in
\* no later _workers.
C21_WorkerKeptUntilDone ==
    /\ [](\A w \in WorkerIds :
             /\ InList(_workers, w) <=> InFlight(w)
             /\ handled[w] # << >> => ~InList(_workers, w)
             /\ Cardinality({i \in 1..Len(_workers) : _workers[i] = w}) <= 1)
    /\ [][\A w \in WorkerIds :
             /\ handled'[w] # handled[w] =>
                   InList(_workers, w) /\ ~InList(_workers', w)
             /\ (threads[w].state = "none" /\ threads'[w].state # "none") =>
                   /\ threads'[w].state = "started"
                   /\ InList(_workers', w)]_vars

\* The outcome of the first worker has been handled and the worker is gone
\* from _workers, which now keeps the second worker.
C21_Witness ==
    /\ handled[1] # << >>
    /\ _workers = <<2>>
    /\ threads[2].state = "running"

\* C22: _done handles the outcome of a worker only when the call of main of
\* that worker has ended, by returning or by raising; an outcome is emitted
\* only out of the call, and never for a worker whose main is executing or
\* has not been called.
C22_DoneAfterMain ==
    /\ [](\A w \in WorkerIds :
             /\ Pending(w) > 0 => threads[w].state = "emitted"
             /\ handled[w] # << >> => threads[w].state = "deleted")
    /\ [][\A w \in WorkerIds :
             /\ handled'[w] # handled[w] =>
                   /\ threads[w].state = "emitted"
                   /\ CallEnds(threads[w].func, threads[w].args)
                          \in {"returns", "raises"}
                   /\ Len(output') = Len(output) + 1
                   /\ run_btn'
             /\ (threads'[w].state = "emitted" /\ threads[w].state # "emitted") =>
                   threads[w].state = "running"
             /\ (threads'[w].state = "running" /\ threads[w].state # "running") =>
                   /\ threads[w].state = "started"
                   /\ Pending(w) = 0 /\ handled[w] = << >>]_vars

\* An outcome has been handled for a worker whose main was called once.
C22_Witness ==
    \E w \in WorkerIds :
        /\ handled[w] # << >>
        /\ threads[w].state = "deleted"
        /\ mainCalls[threads[w].func] = 1

\* The rows of the items the user can make current now.
OtherRows == (1..Len(listbox)) \ {currentRow}

\* C23: the step of _run that starts a worker calls no main and leaves the UI
\* control flow idle; main is called in a step of the worker that changes
\* nothing of the host; and while a main is executing the UI is idle and can
\* handle the selection of any other item of the list.
C23_RunReturnsAtOnce ==
    /\ [](\A w \in WorkerIds :
             threads[w].state \in {"started", "running"} =>
                 /\ ui = "idle"
                 /\ \A row \in OtherRows : ENABLED _choose(row))
    /\ [][\A w \in WorkerIds :
             /\ (threads[w].state = "none" /\ threads'[w].state # "none") =>
                   /\ threads'[w].state = "started"
                   /\ mainCalls' = mainCalls
                   /\ ui' = "idle"
             /\ (threads'[w].state = "running" /\ threads[w].state # "running") =>
                   UNCHANGED <<ui, output, run_btn, _workers, _current_name,
                               currentRow, _selected_files, heap,
                               events>>]_vars

\* A main is executing while the output shows the description of another
\* plug-in, selected after the Run click.
C23_Witness ==
    \E w \in WorkerIds :
        /\ threads[w].state = "running"
        /\ _current_name # <<threads[w].name>>
        /\ output # << >>
        /\ Last(output) = <<"<i>Click Run to choose them</i><br/>">>

\* The mapping the dialogs answered so far give: the i-th key prompted with
\* the path answered for it.
Chosen(n) == [i \in 1..n |-> [key |-> prompted[i], value |-> Path(answered[i])]]

\* C24: the mapping of a Run holds exactly the paths chosen in the dialogs of
\* that Run: it is a new empty mapping when line 135 is passed, it holds the
\* answers of this Run while a dialog is open, and the worker is started on
\* and called with exactly those; and every selection of a registered plug-in
\* leaves _selected_files bound to an empty mapping.
C24_FreshMapping ==
    /\ [](ui = "prompt" =>
             /\ heap[_selected_files] = Chosen(Len(answered))
             /\ _selected_files \notin HeldByWorkers(threads))
    /\ [][ /\ \A w \in WorkerIds :
                /\ (threads[w].state = "none" /\ threads'[w].state # "none") =>
                      /\ threads'[w].kwargs = _selected_files'
                      /\ heap'[_selected_files'] = Chosen(Len(answered))'
                /\ (threads'[w].state = "running" /\ threads[w].state # "running") =>
                      threads'[w].args = Chosen(Len(answered))
           /\ (ui = "idle" /\ ui' = "prompt") =>
                 heap'[_selected_files'] = << >>
           /\ ( /\ currentRow' # currentRow
                /\ HasKey(plugins, _current_name'[1]) ) =>
                 heap'[_selected_files'] = << >>]_vars

\* The pattern the header of file f declares under file_filters for its i-th
\* required file, the empty text if it declares none.
DeclaredFilter(f, i) ==
    LET ff == File(f).file_filters
        k == File(f).required_files[i].key
    IN  IF HasKey(ff, k)
        THEN ff[CHOOSE j \in 1..Len(ff) : ff[j].key = k].label
        ELSE << >>

\* C25: every file dialog of a Run is given the pattern the header declares
\* for its key, and no filter for a key without a declared pattern.
C25_PromptFiltered ==
    \A i \in 1..Len(filters) : filters[i] = DeclaredFilter(entry, i)

\* The call of worker w entered a main that does not terminate.
NeverReturns(w) ==
    /\ Binds(threads[w].func, threads[w].args)
    /\ File(threads[w].func).main = "hangs"

\* C26: a worker that is executing main leaves that state only by the end of
\* its own call (return, raise, exit), in a step of the worker that changes
\* nothing of the host; no handler of the host changes it, and a worker whose
\* main does not terminate stays as it is, in flight and in _workers.
C26_NoCancel ==
    [][\A w \in WorkerIds :
          threads[w].state = "running" =>
             /\ threads'[w].state \in {"running", "emitted", "died"}
             /\ threads'[w].func = threads[w].func
             /\ threads'[w].args = threads[w].args
             /\ threads'[w].state # "running" =>
                   /\ ~NeverReturns(w)
                   /\ (threads'[w].state = "died") <=>
                          /\ Binds(threads[w].func, threads[w].args)
                          /\ File(threads[w].func).main = "exits"
                   /\ UNCHANGED <<_current_name, currentRow, _selected_files, heap, run_btn,
                                  output, _workers, runs>>
             /\ NeverReturns(w) =>
                   /\ threads'[w] = threads[w]
                   /\ InList(_workers', w)
                   /\ handled'[w] = << >>]_vars

\* A main that does not terminate is executing, and the user has selected
\* another plug-in since the click.
C26_Witness ==
    \E w \in WorkerIds :
        /\ threads[w].state = "running"
        /\ NeverReturns(w)
        /\ _current_name # <<threads[w].name>>
        /\ ~run_btn

\* The latest Run click ended in a cancelled dialog.
CancelledAttempt ==
    /\ ui = "idle"
    /\ answered # << >>
    /\ Last(answered) = << >>

\* C27: every Run click on a selected plug-in executes the top-level code of
\* its file once more, in the step of _run that comes before the first dialog:
\* while a dialog is open the file has been loaded, a cancelled dialog neither
\* loads again nor calls main, and main of a file is never called more often
\* than the file was loaded.
C27_LoadedBeforePrompt ==
    /\ [](/\ ui = "prompt" => topExec[entry] >= 1
          /\ \A f \in directory : mainCalls[f] <= topExec[f]
          /\ \A w \in WorkerIds :
                threads[w].state # "none" => topExec[threads[w].func] >= 1)
    /\ [][ /\ runs' = runs + 1 =>
                /\ topExec' = [topExec EXCEPT ![entry'] = @ + 1]
                /\ mainCalls' = mainCalls
           /\ runs' = runs => topExec' = topExec
           /\ CancelledAttempt' =>
                /\ topExec' = topExec
                /\ mainCalls' = mainCalls
                /\ threads' = threads]_vars

\* The second Run click on a plug-in was cancelled in its dialog: the file was
\* loaded twice and its main was never called.
C27_Witness ==
    /\ CancelledAttempt
    /\ runs = 2
    /\ topExec[entry] = 2
    /\ mainCalls[entry] = 0
    /\ \A w \in WorkerIds : threads[w].state = "none"

\* The file the click loads does not load, or has no attribute `main`.
LoadFails(f) == File(f).top = "raises" \/ File(f).main = "absent"

\* C28: a Run click whose load, or whose read of `main`, raises leaves the
\* host as it was: Run enabled, _workers, the threads, the output, the path
\* mapping and the queue of outcomes unchanged, no dialog opened; and the
\* handler is over, so that Run can be clicked again.
C28_LoadFailureLeavesState ==
    [][(runs' = runs + 1 /\ LoadFails(entry')) =>
          /\ run_btn /\ run_btn'
          /\ UNCHANGED <<_workers, threads, output, events, _selected_files,
                         heap, _current_name, currentRow, plugins, listbox, handled,
                         mainCalls>>
          /\ ui' = "idle"
          /\ prompted' = << >> /\ filters' = << >>
          /\ \E e \in escaped' : e.handler = "_run"
                                  /\ e.stmt \in {"loader.exec_module(mod)",
                                                  "mod.main"}]_vars

\* After a Run click whose load raised, a later Run has started a worker.
C28_Witness ==
    /\ \E e \in escaped : e.handler = "_run"
                            /\ e.stmt = "loader.exec_module(mod)"
    /\ threads[1].state = "none"
    /\ threads[2].state = "running"
    /\ _workers = <<2>>

\* C29: whenever no handler is executing, Run is disabled exactly when
\* _workers is not empty, and every member of _workers is a worker that was
\* started and whose outcome _done has not handled.
C29_ButtonTracksWorkers ==
    ui = "idle" =>
        /\ ~run_btn <=> _workers # << >>
        /\ \A i \in 1..Len(_workers) :
              /\ InFlight(_workers[i])
              /\ handled[_workers[i]] = << >>

\* Idle, with the outcome of the first worker handled and the outcome of the
\* second emitted and not yet handled: Run is disabled and _workers holds the
\* second worker only.
C29_Witness ==
    /\ ui = "idle"
    /\ ~run_btn
    /\ _workers = <<2>>
    /\ handled[1] # << >>
    /\ threads[2].state = "emitted"

\* C30: the selection of another registered plug-in while a worker is in
\* flight changes _current_name and binds _selected_files to a new empty
\* mapping, which no worker holds; the threads (entry point, mapping and
\* state of every worker), the content of the mapping of every worker in
\* flight, _workers, the disabled Run and the queued outcomes are unchanged.
C30_ChooseLeavesRun ==
    [][( /\ currentRow' # currentRow
         /\ HasKey(plugins, _current_name'[1])
         /\ \E w \in WorkerIds : InFlight(w) ) =>
          /\ threads' = threads
          /\ \A w \in WorkerIds :
                InFlight(w) => heap'[threads[w].kwargs] = heap[threads[w].kwargs]
          /\ _workers' = _workers
          /\ ~run_btn /\ ~run_btn'
          /\ events' = events /\ handled' = handled
          /\ heap'[_selected_files'] = << >>
          /\ _selected_files' \notin HeldByWorkers(threads')]_vars

=============================================================================
